---------------------------- MODULE Spec2Model ----------------------------
(***************************************************************************)
(* GitHubFS: a FUSE bridge that shows the repositories of a GitHub user as *)
(* a read-only directory tree (src/src/fs.rs, src/src/main.rs).            *)
(*                                                                         *)
(* The program state is the GitHubFS struct (repos, files, next_inode) and *)
(* the position of main.  The remote content API, the kernel's pending     *)
(* read requests and the passing of time are the environment.  The last    *)
(* reply, the remote calls of the last operation and the inode hand-out    *)
(* history are observation variables: the code does not store them.        *)
(***************************************************************************)
EXTENDS Integers, Sequences, FiniteSets, TLC

\* ------------------------------------------------------------------ bounds
\* next_inode is a u64; lookup and readdir allocate at most MaxAllocs inodes
\* while the filesystem is mounted.
MaxAllocs == 2
\* Largest number of list requests that fail during one mount session.
MaxFailures == 1
\* Longest option list given on the command line.
MaxOptions == 2
\* Largest number of read requests the kernel has pending at once.
MaxBatch == 2

\* ------------------------------------------------------- program constants
RootInode == 1
FirstInode == 2
DirPerm == 493

\* ------------------------------------------------------------------- state
VARIABLES
    pc,             \* position of main: "new", "parse", "mount", "init", "serving", "exit"
    options,        \* args.options: the options the loop of main has yet to read
    rwAt,           \* position of the first "rw" on the command line, 0 if none
    mainResult,     \* what main returned: "running", "Ok", "InvalidInput"
    mountAttempted, \* fuser::mount2 was called
    fsOk,           \* GitHubFS::new returned Ok
    repos,          \* GitHubFS.repos   : inode -> GitHubRepository
    reposOrder,     \* iteration order of the repos HashMap
    files,          \* GitHubFS.files   : inode -> Vec<GitHubFile>
    next_inode,     \* GitHubFS.next_inode
    allocs,         \* inodes allocated by lookup and readdir so far
    present,        \* remote: paths that exist at the content provider now
    faults,         \* list requests that have failed so far
    queue,          \* read requests the kernel has pending, in arrival order
    batch,          \* the reads that were pending together, and what became of them
    reply,          \* the reply of the last dispatched operation
    calls,          \* remote calls issued by the last operation
    handed,         \* <<parent, name, inode>> returned by lookup and readdir below a repository
    assigned,       \* <<inode, entity>>: what each inode was given to
    dispatched      \* a filesystem operation (init included) has been dispatched

vars == <<pc, options, rwAt, mainResult, mountAttempted, fsOk, repos, reposOrder, files,
          next_inode, allocs, present, faults, queue, batch, reply, calls, handed, assigned,
          dispatched>>

fsVars == <<repos, reposOrder, files, next_inode>>
mainVars == <<pc, options, rwAt, mainResult, mountAttempted, fsOk>>

\* ---------------------------------------------------------- remote content
\* The repositories GET /user/repos returns, in the order of the response.
RepoList ==
    << [name |-> "a", full_name |-> "u/a"],
       [name |-> "b", full_name |-> "u/b"] >>

\* Everything that can exist at the remote: repo u/a holds directory d with
\* file d/f and an empty directory e; repo u/b holds a root file whose path is
\* the numeral 8.  Paths are unique over the repositories, so a path names
\* its entity.  bytes is the file's content, content64 the sextets of its
\* base64 text (64 stands for the padding character).
Universe ==
    << [repo |-> "u/a", dir |-> "",  name |-> "d", path |-> "d",   file_type |-> "dir",
        bytes |-> <<>>, content64 |-> <<>>],
       [repo |-> "u/a", dir |-> "d", name |-> "f", path |-> "d/f", file_type |-> "file",
        bytes |-> <<1, 2, 3>>, content64 |-> <<0, 16, 8, 3>>],
       [repo |-> "u/a", dir |-> "",  name |-> "e", path |-> "e",   file_type |-> "dir",
        bytes |-> <<>>, content64 |-> <<>>],
       [repo |-> "u/b", dir |-> "",  name |-> "8", path |-> "8",   file_type |-> "file",
        bytes |-> <<7, 8>>, content64 |-> <<1, 48, 32, 64>>] >>

UIdx == 1..Len(Universe)
Paths == {Universe[i].path : i \in UIdx}
Names == {Universe[i].name : i \in UIdx}
FullNames == {RepoList[i].full_name : i \in 1..Len(RepoList)}
EntryOf(path) == Universe[CHOOSE i \in UIdx : Universe[i].path = path]

\* struct GitHubFile as the contents API serialises one entry.
ToFile(e) ==
    [name |-> e.name, path |-> e.path, file_type |-> e.file_type,
     download_url |-> IF e.file_type = "file" THEN "url" ELSE "null"]

\* Does GET /repos/{full_name}/contents/{path} name a directory now?
RemoteIsDir(full_name, path, pres) ==
    /\ full_name \in FullNames
    /\ \/ path = ""
       \/ \E i \in UIdx : /\ Universe[i].repo = full_name
                          /\ Universe[i].path = path
                          /\ Universe[i].file_type = "dir"
                          /\ path \in pres

\* The children the remote lists for a directory, in the provider's order.
RemoteList(full_name, path, pres) ==
    LET keep(e) == e.repo = full_name /\ e.dir = path /\ e.path \in pres
        RECURSIVE walk(_)
        walk(i) == IF i > Len(Universe) THEN <<>>
                   ELSE (IF keep(Universe[i]) THEN <<ToFile(Universe[i])>> ELSE <<>>)
                        \o walk(i + 1)
    IN  walk(1)

\* Does GET /repos/{full_name}/contents/{path} name a file now?
RemoteIsFile(full_name, path, pres) ==
    \E i \in UIdx : /\ Universe[i].repo = full_name
                    /\ Universe[i].path = path
                    /\ Universe[i].file_type = "file"
                    /\ path \in pres


\* ------------------------------------------------------------------ helpers
Min(a, b) == IF a < b THEN a ELSE b

\* files.insert(k, v) on the HashMap.
MapInsert(m, k, v) == [x \in (DOMAIN m) \cup {k} |-> IF x = k THEN v ELSE m[x]]

EmptyMap == [x \in {} |-> <<>>]

\* u64::to_string for the inode numbers of the model.
Digit == <<"0", "1", "2", "3", "4", "5", "6", "7", "8", "9">>
RECURSIVE InodeToString(_)
InodeToString(n) ==
    IF n < 10 THEN Digit[n + 1] ELSE InodeToString(n \div 10) \o Digit[(n % 10) + 1]

\* --------------------------------------------------------------- next_inode
\* A counter that returns its value and stays where it is.
NextInodeKept(n) == [inode |-> n, next_inode |-> n]

\* fs.rs 149-153: returns the counter's value and advances the counter by one.
NextInode(n) == [inode |-> n, next_inode |-> n + 1]

\* The counter after k calls of next_inode().
RECURSIVE NextInodes(_, _)
NextInodes(n, k) == IF k = 0 THEN n ELSE NextInodes(NextInode(n).next_inode, k - 1)

\* ---------------------------------------------------------------- load_files
\* load_files works on the struct and returns a Result; st carries the struct
\* fields it changes (files, next_inode), the Result (res, listing) and the
\* observations (calls, assigned, failed = the list requests that failed).
\* failing is the set of <<full_name, path>> whose list request fails during this call
\* (transport failure, non-success status or a body that does not parse).
RECURSIVE LoadFiles(_, _, _, _, _, _)
RECURSIVE LoadLoop(_, _, _, _, _, _, _)

\* fs.rs 181-189: the loop over the fetched entries, from entry i on.
LoadLoop(st, rps, pres, repo_id, fs, i, failing) ==
    IF i > Len(fs) THEN [st EXCEPT !.res = "Ok"]
    ELSE
        LET alloc == NextInode(st.next_inode)
            inode == alloc.inode
            st1 == [st EXCEPT !.next_inode = alloc.next_inode,
                              !.assigned = @ \cup {<<inode, fs[i].path>>}]
        IN  IF fs[i].file_type = "dir"
            THEN LET sub == LoadFiles(st1, rps, pres, repo_id, fs[i].path, failing)
                 IN  IF sub.res # "Ok" THEN sub
                     ELSE LoadLoop([sub EXCEPT !.files = MapInsert(@, inode, sub.listing)],
                                   rps, pres, repo_id, fs, i + 1, failing)
            ELSE LoadLoop(st1, rps, pres, repo_id, fs, i + 1, failing)

\* fs.rs 155-200.
LoadFiles(st, rps, pres, repo_id, path, failing) ==
    IF repo_id \notin DOMAIN rps
    THEN [st EXCEPT !.res = "NotFound", !.listing = <<>>]
    ELSE
        LET full_name == rps[repo_id].full_name
            st0 == [st EXCEPT !.calls = Append(@, <<"list", full_name, path>>)]
        IN  IF <<full_name, path>> \in failing \/ ~RemoteIsDir(full_name, path, pres)
            THEN [st0 EXCEPT !.res = "Other", !.listing = <<>>, !.failed = @ + 1]
            ELSE
                LET fs == RemoteList(full_name, path, pres)
                    done == LoadLoop(st0, rps, pres, repo_id, fs, 1, failing)
                IN  IF done.res # "Ok" THEN [done EXCEPT !.listing = <<>>]
                    ELSE [done EXCEPT !.files = MapInsert(@, repo_id, fs),
                                      !.res = "Ok",
                                      !.listing = fs]

\* The struct fields and observations load_files starts from.
LoadState(f, n, a) ==
    [files |-> f, next_inode |-> n, assigned |-> a, calls |-> <<>>, failed |-> 0,
     res |-> "Ok", listing |-> <<>>]


\* The list requests load_files can issue: the root and every directory of a repository.
ListUrls ==
    {<<RepoList[i].full_name, "">> : i \in 1..Len(RepoList)}
        \cup {<<Universe[i].repo, Universe[i].path>> : i \in {j \in UIdx : Universe[j].file_type = "dir"}}

\* The sets of list requests that may fail during one new() or init().
FailureSets == {F \in SUBSET ListUrls : Cardinality(F) <= MaxFailures - faults}

\* ------------------------------------------------------------------- attr
\* fs.rs 204-228: always Ok; the kind comes from the inode number alone.
Attr(ino, rps) ==
    [ino |-> ino,
     kind |-> IF ino = RootInode \/ ino \in DOMAIN rps THEN "Directory" ELSE "RegularFile",
     perm |-> DirPerm]

NoAttr == [ino |-> 0, kind |-> "none", perm |-> 0]

\* ---------------------------------------------------------------- replies
NoReply ==
    [op |-> "none", ino |-> 0, name |-> "", offset |-> 0, size |-> 0, status |-> "none",
     attr |-> NoAttr, entries |-> <<>>, data |-> <<>>, expired |-> FALSE]

\* ------------------------------------------------------------------- main
KnownOptions ==
    {"dev", "nodev", "suid", "nosuid", "ro", "exec", "noexec", "atime", "noatime",
     "dirsync", "sync", "async"}

\* The option words the model passes on the command line.
OptionWords == {"ro", "rw", "xx"}
OptionLists == UNION {[1..n -> OptionWords] : n \in 0..MaxOptions}

\* main.rs 49-74: one arm of the match.
ParseOptionRwAccepted(opt) ==
    IF opt \in KnownOptions \cup {"rw"} THEN [ok |-> TRUE, msg |-> ""]
    ELSE [ok |-> FALSE, msg |-> "Unknown option"]

ParseOption(opt) ==
    IF opt \in KnownOptions THEN [ok |-> TRUE, msg |-> ""]
    ELSE IF opt = "rw" THEN [ok |-> FALSE, msg |-> "GitHubFS filesystem must be read-only"]
    ELSE [ok |-> FALSE, msg |-> "Unknown option"]

\* Position of the first "rw" in an option list, 0 if there is none.
FirstRw(opts) ==
    IF \E i \in 1..Len(opts) : opts[i] = "rw"
    THEN CHOOSE i \in 1..Len(opts) : opts[i] = "rw" /\ \A j \in 1..(i - 1) : opts[j] # "rw"
    ELSE 0

NoBatch == [n |-> 0, ino |-> 0, fetches |-> 0, replies |-> <<>>]

Running == [kind |-> "running", msg |-> ""]

\* fs.rs 50-57 and the command line main starts from.  The mount point is
\* taken to exist (main.rs 36): when it cannot be created main returns that
\* error before it builds the filesystem or reads any option.
Init ==
    /\ pc = "new"
    /\ options \in OptionLists
    /\ rwAt = FirstRw(options)
    /\ mainResult = Running
    /\ mountAttempted = FALSE
    /\ fsOk = FALSE
    /\ repos = EmptyMap
    /\ reposOrder = <<>>
    /\ files = EmptyMap
    /\ next_inode = FirstInode
    /\ allocs = 0
    /\ present = Paths
    /\ faults = 0
    /\ queue = <<>>
    /\ batch = NoBatch
    /\ reply = NoReply
    /\ calls = <<>>
    /\ handed = {}
    /\ assigned = {}
    /\ dispatched = FALSE

\* fs.rs 61-66: repository i of the response gets inode i + 2 (index from 0).
RepoInodes(list) == [ino \in FirstInode..(Len(list) + 1) |-> list[ino - 1]]

\* fs.rs 68-73: load_files for every repository inode in turn, errors only logged.
RECURSIVE NewLoads(_, _, _, _, _)
NewLoads(st, rps, pres, ino, failing) ==
    IF ino \notin DOMAIN rps THEN st
    ELSE NewLoads(LoadFiles(st, rps, pres, ino, "", failing), rps, pres, ino + 1, failing)

\* The orders in which a HashMap may iterate the key set S.
Orders(S) == {f \in [1..Cardinality(S) -> S] : \A x \in S : \E i \in DOMAIN f : f[i] = x}

\* main.rs 41-44, fs.rs 47-77: GitHubFS::new.
New ==
    /\ pc = "new"
    /\ pc' = "parse"
    /\ \/ \* fetch_repositories fails: new returns Err
          /\ fsOk' = FALSE
          /\ calls' = <<<<"repos", "", "">>>>
          /\ UNCHANGED <<fsVars, assigned, faults>>
       \/ \E failing \in FailureSets : \E order \in Orders(DOMAIN RepoInodes(RepoList)) :
            LET rps == RepoInodes(RepoList)
                a0 == assigned \cup {<<ino, rps[ino].full_name>> : ino \in DOMAIN rps}
                st == NewLoads(LoadState(files, next_inode, a0), rps, present, FirstInode, failing)
            IN  /\ fsOk' = TRUE
                /\ repos' = rps
                /\ reposOrder' = order
                /\ files' = st.files
                /\ next_inode' = st.next_inode
                /\ assigned' = st.assigned
                /\ calls' = <<<<"repos", "", "">>>> \o st.calls
                /\ faults' = faults + st.failed
    /\ UNCHANGED <<options, rwAt, mainResult, mountAttempted, allocs, present, queue,
                   batch, reply, handed, dispatched>>

\* main.rs 46-76: one turn of the option loop; the loop returns at the first
\* option that is refused and falls through to the mount when none is left.
Parse ==
    /\ pc = "parse"
    /\ IF options = <<>>
       THEN pc' = "mount" /\ UNCHANGED <<options, mainResult>>
       ELSE LET r == ParseOption(Head(options))
            IN  IF r.ok
                THEN pc' = pc /\ options' = Tail(options) /\ mainResult' = mainResult
                ELSE /\ pc' = "exit"
                     /\ options' = options
                     /\ mainResult' = [kind |-> "InvalidInput", msg |-> r.msg]
    /\ UNCHANGED <<rwAt, mountAttempted, fsOk, fsVars, allocs, present, faults, queue, batch,
                   reply, calls, handed, assigned, dispatched>>

\* main.rs 78-82: fuser::mount2.  Without a filesystem value no session runs.
Mount ==
    /\ pc = "mount"
    /\ mountAttempted' = TRUE
    /\ IF fsOk THEN pc' = "init" /\ mainResult' = mainResult
       ELSE pc' = "exit" /\ mainResult' = [kind |-> "Ok", msg |-> ""]
    /\ UNCHANGED <<options, rwAt, fsOk, fsVars, allocs, present, faults, queue, batch,
                   reply, calls, handed, assigned, dispatched>>

\* fs.rs 232-247: the init hook loads the repository the HashMap iterates first.
FsInit ==
    /\ pc = "init"
    /\ dispatched' = TRUE
    /\ IF reposOrder = <<>>
       THEN /\ pc' = "exit"
            /\ mainResult' = [kind |-> "Ok", msg |-> ""]
            /\ calls' = <<>>
            /\ UNCHANGED <<files, next_inode, assigned, faults>>
       ELSE \E failing \in FailureSets :
            LET st == LoadFiles(LoadState(files, next_inode, assigned), repos, present,
                                reposOrder[1], "", failing)
            IN  /\ pc' = "serving"
                /\ mainResult' = mainResult
                /\ files' = st.files
                /\ next_inode' = st.next_inode
                /\ assigned' = st.assigned
                /\ calls' = st.calls
                /\ faults' = faults + st.failed
    /\ UNCHANGED <<options, rwAt, mountAttempted, fsOk, repos, reposOrder, allocs, present,
                   queue, batch, reply, handed>>


\* ------------------------------------------------------- filesystem operations
\* Index of the first file of a Vec with the given name / path, 0 if none.
FirstNamed(fs, name) ==
    IF \E i \in 1..Len(fs) : fs[i].name = name
    THEN CHOOSE i \in 1..Len(fs) : fs[i].name = name /\ \A j \in 1..(i - 1) : fs[j].name # name
    ELSE 0

FirstWithPath(fs, path) ==
    IF \E i \in 1..Len(fs) : fs[i].path = path
    THEN CHOOSE i \in 1..Len(fs) : fs[i].path = path /\ \A j \in 1..(i - 1) : fs[j].path # path
    ELSE 0

\* The names the kernel looks up in a directory: every name stored for it and
\* one name that no directory holds.
LookupNames(parent) ==
    (IF parent = RootInode THEN {repos[ino].name : ino \in DOMAIN repos}
     ELSE IF parent \in DOMAIN files THEN {files[parent][i].name : i \in 1..Len(files[parent])}
     ELSE {}) \cup {"zz"}

\* The inode numbers the kernel passes: the root, the repositories, the numbers
\* lookup and readdir have returned to it, and the first number not allocated yet.
Inodes == {RootInode} \cup DOMAIN repos \cup {h[3] : h \in handed} \cup {next_inode}

\* fs.rs 250-273.
Lookup(parent, name) ==
    /\ pc = "serving"
    /\ reply = NoReply
    /\ queue = <<>>
    /\ dispatched' = TRUE
    /\ calls' = <<>>
    /\ LET base == [NoReply EXCEPT !.op = "lookup", !.ino = parent, !.name = name]
       IN  IF parent = RootInode
           THEN /\ IF \E ino \in DOMAIN repos : repos[ino].name = name
                   THEN LET inode == CHOOSE ino \in DOMAIN repos : repos[ino].name = name
                        IN  reply' = [base EXCEPT !.status = "entry",
                                                  !.attr = Attr(inode, repos)]
                   ELSE reply' = [base EXCEPT !.status = "ENOENT"]
                /\ UNCHANGED <<next_inode, allocs, assigned, handed>>
           ELSE IF parent \in DOMAIN files /\ FirstNamed(files[parent], name) # 0
           THEN LET alloc == NextInode(next_inode)
                    inode == alloc.inode
                    file == files[parent][FirstNamed(files[parent], name)]
                IN  /\ allocs < MaxAllocs
                    /\ allocs' = allocs + 1
                    /\ next_inode' = alloc.next_inode
                    /\ reply' = [base EXCEPT !.status = "entry", !.attr = Attr(inode, repos)]
                    /\ handed' = handed \cup {<<parent, name, inode>>}
                    /\ assigned' = assigned \cup {<<inode, file.path>>}
           ELSE /\ reply' = [base EXCEPT !.status = "ENOENT"]
                /\ UNCHANGED <<next_inode, allocs, assigned, handed>>
    /\ UNCHANGED <<mainVars, repos, reposOrder, files, present, faults, queue, batch>>

\* fs.rs 275-282.
Getattr(ino) ==
    /\ pc = "serving"
    /\ reply = NoReply
    /\ queue = <<>>
    /\ dispatched' = TRUE
    /\ calls' = <<>>
    /\ reply' = [NoReply EXCEPT !.op = "getattr", !.ino = ino, !.status = "attr",
                                !.attr = Attr(ino, repos)]
    /\ UNCHANGED <<mainVars, fsVars, allocs, present, faults, queue, batch, handed, assigned>>

DirEntry(ino, offset, kind, name) ==
    [ino |-> ino, offset |-> offset, kind |-> kind, name |-> name]

\* fs.rs 304-313: the loop over the stored files of the directory.  Entry i
\* (from 0) gets a new inode, is stored under it and is added with cursor i + 3.
ReaddirFiles(fs, first) ==
    [i \in 1..Len(fs) |->
        DirEntry(first + i - 1, i + 2,
                 IF fs[i].file_type = "dir" THEN "Directory" ELSE "RegularFile",
                 fs[i].name)]

RECURSIVE ReaddirInsert(_, _, _, _)
ReaddirInsert(m, fs, first, i) ==
    IF i > Len(fs) THEN m
    ELSE ReaddirInsert(MapInsert(m, first + i - 1, <<fs[i]>>), fs, first, i + 1)

\* The <<cursor, expired>> pairs readdir is called with.
ReaddirInputs == {<<0, FALSE>>, <<0, TRUE>>, <<3, FALSE>>}

\* fs.rs 284-317.  expired tells whether the stored listing of ino is older
\* than the TTL when the call arrives; the handler reads no clock.
Readdir(ino, offset, expired) ==
    /\ pc = "serving"
    /\ reply = NoReply
    /\ queue = <<>>
    /\ dispatched' = TRUE
    /\ calls' = <<>>
    /\ LET base == [NoReply EXCEPT !.op = "readdir", !.ino = ino, !.offset = offset,
                                   !.status = "ok", !.expired = expired]
           dots == <<DirEntry(ino, 1, "Directory", "."), DirEntry(ino, 2, "Directory", "..")>>
       IN  IF offset # 0
           THEN /\ reply' = base
                /\ UNCHANGED <<files, next_inode, allocs, handed, assigned>>
           ELSE IF ino = RootInode
           THEN /\ reply' = [base EXCEPT !.entries = dots \o
                                [i \in 1..Len(reposOrder) |->
                                    DirEntry(reposOrder[i], reposOrder[i], "Directory",
                                             repos[reposOrder[i]].name)]]
                /\ UNCHANGED <<files, next_inode, allocs, handed, assigned>>
           ELSE IF ino \in DOMAIN files
           THEN LET fs == files[ino]
                    first == next_inode
                IN  /\ allocs + Len(fs) <= MaxAllocs
                    /\ allocs' = allocs + Len(fs)
                    /\ next_inode' = NextInodes(first, Len(fs))
                    /\ files' = ReaddirInsert(files, fs, first, 1)
                    /\ reply' = [base EXCEPT !.entries = dots \o ReaddirFiles(fs, first)]
                    /\ handed' = handed \cup
                                    {<<ino, fs[i].name, first + i - 1>> : i \in 1..Len(fs)}
                    /\ assigned' = assigned \cup
                                    {<<first + i - 1, fs[i].path>> : i \in 1..Len(fs)}
           ELSE /\ reply' = [base EXCEPT !.entries = dots]
                /\ UNCHANGED <<files, next_inode, allocs, handed, assigned>>
    /\ UNCHANGED <<mainVars, repos, reposOrder, present, faults, queue, batch>>


\* --------------------------------------------------------------------- read
\* base64::decode over sextets (64 is the padding character): every four
\* sextets give three bytes, less one per trailing padding character.
RECURSIVE Base64Decode(_)
Base64Decode(s) ==
    IF s = <<>> THEN [ok |-> TRUE, bytes |-> <<>>]
    ELSE IF Len(s) < 4 \/ s[1] = 64 \/ s[2] = 64 \/ (s[3] = 64 /\ s[4] # 64)
              \/ (s[4] = 64 /\ Len(s) > 4)
    THEN [ok |-> FALSE, bytes |-> <<>>]
    ELSE
        LET b1 == s[1] * 4 + (s[2] \div 16)
            b2 == (s[2] % 16) * 16 + (s[3] \div 4)
            b3 == (s[3] % 4) * 64 + s[4]
            group == IF s[3] = 64 THEN <<b1>>
                     ELSE IF s[4] = 64 THEN <<b1, b2>>
                     ELSE <<b1, b2, b3>>
            rest == Base64Decode(SubSeq(s, 5, Len(s)))
        IN  IF rest.ok THEN [ok |-> TRUE, bytes |-> group \o rest.bytes]
            ELSE rest

\* What can go wrong with one content request, besides the remote's own answer.
FetchFaults == {"none", "transport", "json", "encoding"}

\* fs.rs 110-147: GET /repos/{repo_full_name}/contents/{path}.  Every failure
\* is an io::Error of kind Other.
FetchFileContent(repo_full_name, path, pres, fault) ==
    IF fault = "transport" THEN [res |-> "Other", bytes |-> <<>>]
    ELSE IF ~RemoteIsFile(repo_full_name, path, pres) THEN [res |-> "Other", bytes |-> <<>>]
    ELSE IF fault = "json" THEN [res |-> "Other", bytes |-> <<>>]
    ELSE IF fault = "encoding" THEN [res |-> "Other", bytes |-> <<>>]
    ELSE LET d == Base64Decode(EntryOf(path).content64)
         IN  IF d.ok THEN [res |-> "Ok", bytes |-> d.bytes]
             ELSE [res |-> "Other", bytes |-> <<>>]

\* fs.rs 337: &content[offset .. min(len, offset + size)] panics when the
\* start lies behind the end.
ReadSlice(content, offset, size) ==
    LET end == Min(Len(content), offset + size)
    IN  IF offset > end THEN [panic |-> TRUE, data |-> <<>>]
        ELSE [panic |-> FALSE, data |-> SubSeq(content, offset + 1, end)]

\* The <<offset, size>> ranges the kernel asks for.
ReadRanges == {<<0, 4>>, <<3, 2>>}

\* The kernel has n reads of one file pending at the same time.
SubmitReads(ino, offset, size, n) ==
    /\ pc = "serving"
    /\ reply = NoReply
    /\ queue = <<>>
    /\ queue' = [i \in 1..n |-> [ino |-> ino, offset |-> offset, size |-> size]]
    /\ batch' = [n |-> n, ino |-> ino, fetches |-> 0, replies |-> <<>>]
    /\ UNCHANGED <<mainVars, fsVars, allocs, present, faults, reply, calls, handed, assigned,
                   dispatched>>

\* fs.rs 319-353: the handler serves the oldest pending read.  The values of
\* the files HashMap are searched in the map's order for a file whose path is
\* the decimal text of the inode number.
Read ==
    /\ pc = "serving"
    /\ reply = NoReply
    /\ queue # <<>>
    /\ dispatched' = TRUE
    /\ queue' = Tail(queue)
    /\ LET req == Head(queue)
           base == [NoReply EXCEPT !.op = "read", !.ino = req.ino, !.offset = req.offset,
                                   !.size = req.size]
           hits == {k \in DOMAIN files : FirstWithPath(files[k], InodeToString(req.ino)) # 0}
           Done(r, cs, next) ==
               /\ reply' = r
               /\ calls' = cs
               /\ batch' = [batch EXCEPT !.fetches = @ + Len(cs), !.replies = Append(@, r)]
               /\ pc' = next
       IN  IF hits = {} THEN Done([base EXCEPT !.status = "ENOENT"], <<>>, pc)
           ELSE \E k \in hits : \E fault \in FetchFaults :
                LET file == files[k][FirstWithPath(files[k], InodeToString(req.ino))]
                    got == FetchFileContent(file.path, file.path, present, fault)
                    cut == ReadSlice(got.bytes, req.offset, req.size)
                    fetch == <<<<"content", file.path, file.path>>>>
                IN  IF file.download_url = "null"
                    THEN Done([base EXCEPT !.status = "ENOENT"], <<>>, pc)
                    ELSE IF got.res # "Ok"
                    THEN Done([base EXCEPT !.status = "ENOENT"], fetch, pc)
                    ELSE IF cut.panic
                    THEN Done([base EXCEPT !.status = "panic"], fetch, "exit")
                    ELSE Done([base EXCEPT !.status = "data", !.data = cut.data], fetch, pc)
    /\ UNCHANGED <<options, rwAt, mainResult, mountAttempted, fsOk, fsVars, allocs, present,
                   faults, handed, assigned>>

\* The session loop hands the reply to the kernel and turns to the next
\* request; a batch of reads is over when its last reply has gone out.
Deliver ==
    /\ pc = "serving"
    /\ reply # NoReply
    /\ reply' = NoReply
    /\ calls' = <<>>
    /\ batch' = IF queue = <<>> THEN NoBatch ELSE batch
    /\ UNCHANGED <<mainVars, fsVars, allocs, present, faults, queue, handed, assigned,
                   dispatched>>

\* -------------------------------------------------------------- environment
\* The paths the remote source adds or removes while the filesystem is mounted.
MutablePaths == {"8"}

RemoteChange(path) ==
    /\ pc = "serving"
    /\ reply = NoReply
    /\ present' = IF path \in present THEN present \ {path} ELSE present \cup {path}
    /\ queue = <<>>
    /\ UNCHANGED <<mainVars, fsVars, allocs, faults, queue, batch, reply, calls, handed,
                   assigned, dispatched>>

\* ------------------------------------------------------------ specification
LookupStep == \E parent \in Inodes : \E name \in LookupNames(parent) : Lookup(parent, name)
GetattrStep == \E ino \in Inodes : Getattr(ino)
ReaddirStep ==
    \E ino \in Inodes : \E in \in ReaddirInputs : Readdir(ino, in[1], in[2])
SubmitStep ==
    \E ino \in Inodes : \E range \in ReadRanges : \E n \in 1..MaxBatch :
        SubmitReads(ino, range[1], range[2], n)
RemoteStep == \E path \in MutablePaths : RemoteChange(path)

Next ==
    \/ New
    \/ Parse
    \/ Mount
    \/ FsInit
    \/ LookupStep
    \/ GetattrStep
    \/ ReaddirStep
    \/ SubmitStep
    \/ Read
    \/ Deliver
    \/ RemoteStep

Spec == Init /\ [][Next]_vars


\* ---------------------------------------------------------------- properties
\* Vocabulary of the properties below.
HandedInodes == {h[3] : h \in handed}
KnownInodes == {RootInode} \cup DOMAIN repos \cup {a[1] : a \in assigned}
IsFilePath(p) == p \in Paths /\ EntryOf(p).file_type = "file"
IsDirPath(p) == p \in Paths /\ EntryOf(p).file_type = "dir"
\* The inode was returned by lookup or readdir for the regular file at path p.
HandedForFile(ino, p) == ino \in HandedInodes /\ <<ino, p>> \in assigned /\ IsFilePath(p)
\* The inode denotes a directory: the root, a repository or a remote directory.
DenotesDirectory(ino) ==
    \/ ino = RootInode
    \/ ino \in DOMAIN repos
    \/ \E p \in Paths : <<ino, p>> \in assigned /\ IsDirPath(p)
\* C[o : min(o + n, L)]
Slice(content, o, n) == SubSeq(content, o + 1, Min(o + n, Len(content)))
ListCalls == SelectSeq(calls, LAMBDA c : c[1] = "list")
EntryNames(entries) == [i \in 1..Len(entries) |-> entries[i].name]
FileNames(fs) == [i \in 1..Len(fs) |-> fs[i].name]

\* C1 (identity stability): for every parent inode and child name, every
\* lookup(parent, name) and every readdir(parent) returns the same inode number
\* for that child; below the root that inode is the repository's inode.
C1_IdentityStability ==
    /\ \A h1 \in handed : \A h2 \in handed :
            (h1[1] = h2[1] /\ h1[2] = h2[2]) => h1[3] = h2[3]
    /\ (reply.op = "lookup" /\ reply.ino = RootInode /\ reply.status = "entry")
            => (reply.attr.ino \in DOMAIN repos /\ repos[reply.attr.ino].name = reply.name)

\* C2 (inode uniqueness): every inode other than 1 denotes exactly one entity;
\* no inode given to a repository is also handed out by next_inode to a file or
\* directory entry, and no two remote paths share an inode.
C2_InodeUniqueness ==
    \A a1 \in assigned : \A a2 \in assigned :
        /\ a1[1] # RootInode
        /\ a1[1] = a2[1] => a1[2] = a2[2]

\* C3 (lazy recursion): populating a listing issues exactly one list request,
\* for that directory only; new() and init() list root directories only and
\* never the children of a subdirectory.
C3_LazyRecursion ==
    /\ \A i \in 1..Len(ListCalls) : ListCalls[i][3] = ""
    /\ \A i \in 1..Len(ListCalls) : \A j \in 1..Len(ListCalls) :
            ListCalls[i] = ListCalls[j] => i = j

\* C4 (read correctness): a read of a regular-file inode handed out by lookup
\* or readdir, at an offset o <= L of its content C, replies C[o : min(o+n, L)].
C4_ReadCorrectness ==
    \A p \in Paths :
        (/\ reply.op = "read"
         /\ HandedForFile(reply.ino, p)
         /\ p \in present
         /\ reply.offset <= Len(EntryOf(p).bytes))
        => (/\ reply.status = "data"
            /\ reply.data = Slice(EntryOf(p).bytes, reply.offset, reply.size))

\* C5 (read beyond the end): a read at an offset strictly beyond the content
\* length replies with an empty result, never with an error or an abort.
C5_ReadBeyondEnd ==
    \A p \in Paths :
        (/\ reply.op = "read"
         /\ HandedForFile(reply.ino, p)
         /\ p \in present
         /\ reply.offset > Len(EntryOf(p).bytes))
        => (reply.status = "data" /\ reply.data = <<>>)

\* C6 (fetch deduplication): when several reads of the same file were pending
\* together and all have been answered, exactly one content request was issued
\* for them and every reply carries the right bytes.
C6_FetchDeduplication ==
    \A p \in Paths :
        (/\ batch.n >= 2
         /\ Len(batch.replies) = batch.n
         /\ HandedForFile(batch.ino, p)
         /\ p \in present)
        => (/\ batch.fetches = 1
            /\ \A i \in 1..batch.n :
                  /\ batch.replies[i].status = "data"
                  /\ batch.replies[i].data =
                        Slice(EntryOf(p).bytes, batch.replies[i].offset, batch.replies[i].size))

\* C7 (TTL reconciliation): a readdir of a repository's root whose stored
\* listing is older than the TTL issues a new list request and yields the
\* entries the remote source holds now.
C7_TTLReconciliation ==
    (/\ reply.op = "readdir"
     /\ reply.offset = 0
     /\ reply.expired
     /\ reply.ino \in DOMAIN repos
     /\ reply.ino \in DOMAIN files)
    => (/\ <<"list", repos[reply.ino].full_name, "">> \in {calls[i] : i \in 1..Len(calls)}
        /\ SubSeq(EntryNames(reply.entries), 3, Len(reply.entries))
              = FileNames(RemoteList(repos[reply.ino].full_name, "", present)))

\* C8 (read-only enforcement): when the option list contains rw, wherever it
\* stands, mount2 is never attempted, no filesystem operation is dispatched, and
\* main ends with a configuration error.
C8_ReadOnlyEnforcement ==
    rwAt # 0 =>
        /\ ~mountAttempted
        /\ ~dispatched
        /\ pc \in {"new", "parse", "exit"}
        /\ pc = "exit" => mainResult.kind = "InvalidInput"

\* C8 witness: rw stands last, behind an option that was accepted, and main
\* has returned the read-only error.
C8_Witness ==
    /\ rwAt = MaxOptions
    /\ pc = "exit"
    /\ mainResult = [kind |-> "InvalidInput", msg |-> "GitHubFS filesystem must be read-only"]
    /\ ~mountAttempted

\* C9 (getattr): getattr fails with NotFound for every inode that is neither
\* the root nor assigned to a repository, directory or file, replies with
\* attributes for the others, and issues no remote call.
C9_GetattrNotFound ==
    reply.op = "getattr" =>
        /\ calls = <<>>
        /\ reply.ino \in KnownInodes => reply.status = "attr"
        /\ reply.ino \notin KnownInodes => reply.status = "ENOENT"

\* C10 (read of a directory): a read on the root, a repository or a
\* subdirectory fails with IsADirectory, not NotFound, and fetches no content.
C10_ReadIsADirectory ==
    (reply.op = "read" /\ DenotesDirectory(reply.ino))
        => (reply.status = "EISDIR" /\ calls = <<>>)

\* Names of the children a readdir reply lists behind its first two entries.
ChildNames(entries) == SubSeq(EntryNames(entries), 3, Len(entries))
RepoNames == [i \in 1..Len(RepoList) |-> RepoList[i].name]

\* C11 (readdir order): readdir(dir, 0) yields "." then ".." and then the
\* children of dir in the order the content provider returned them; the
\* children of the root are the repositories in the order of the response.
C11_ReaddirOrder ==
    (reply.op = "readdir" /\ reply.offset = 0) =>
        /\ Len(reply.entries) >= 2
        /\ reply.entries[1].name = "."
        /\ reply.entries[2].name = ".."
        /\ reply.ino = RootInode => ChildNames(reply.entries) = RepoNames
        /\ (reply.ino \in DOMAIN repos /\ reply.ino \in DOMAIN files /\ present = Paths)
              => ChildNames(reply.entries)
                    = FileNames(RemoteList(repos[reply.ino].full_name, "", present))

\* The entries readdir(ino, 0) adds in the current state, with their cursors.
Enumeration(ino) ==
    <<DirEntry(ino, 1, "Directory", "."), DirEntry(ino, 2, "Directory", "..")>> \o
    (IF ino = RootInode
     THEN [i \in 1..Len(reposOrder) |->
              DirEntry(reposOrder[i], reposOrder[i], "Directory", repos[reposOrder[i]].name)]
     ELSE IF ino \in DOMAIN files THEN ReaddirFiles(files[ino], next_inode)
     ELSE <<>>)

\* C12 (restartable readdir): the cursors of one enumeration are pairwise
\* distinct, and readdir(dir, c) for a cursor c that the enumeration of dir
\* attaches to an entry yields exactly the entries that follow that entry.
C12_ReaddirRestartable ==
    /\ (reply.op = "readdir" /\ reply.offset = 0) =>
          \A i \in 1..Len(reply.entries) : \A j \in 1..Len(reply.entries) :
              reply.entries[i].offset = reply.entries[j].offset => i = j
    /\ (reply.op = "readdir" /\ reply.offset # 0) =>
          LET full == Enumeration(reply.ino)
          IN  \A i \in 1..Len(full) :
                  full[i].offset = reply.offset =>
                      EntryNames(reply.entries) = EntryNames(SubSeq(full, i + 1, Len(full)))

\* C13 (permission bits): every attribute reply of getattr or lookup reports
\* permission 0755 (493) for a directory and 0644 (420) for a regular file.
C13_PermissionByKind ==
    reply.status \in {"attr", "entry"} =>
        /\ (reply.attr.ino = RootInode \/ reply.attr.ino \in DOMAIN repos)
              => reply.attr.perm = 493
        /\ \A p \in Paths :
              (reply.attr.ino \in HandedInodes /\ <<reply.attr.ino, p>> \in assigned
                    /\ IsDirPath(p))
                  => reply.attr.perm = 493
        /\ \A p \in Paths : HandedForFile(reply.attr.ino, p) => reply.attr.perm = 420

\* The kind of a remote entry by its provider type.
RemoteKind(p) == IF EntryOf(p).file_type = "dir" THEN "Directory" ELSE "RegularFile"

\* C14 (kind consistency): the kind lookup and getattr report for the inode of
\* an entry is the entry's remote kind, the one readdir reports for it.
C14_KindConsistency ==
    reply.status \in {"attr", "entry"} =>
        \A p \in Paths :
            (<<reply.attr.ino, p>> \in assigned /\ reply.attr.ino \in HandedInodes)
                => reply.attr.kind = RemoteKind(p)

\* A readdir or lookup on a repository whose root listing is not stored asks
\* the provider for it again.
RetriesMissingListing ==
    (/\ reply.op \in {"readdir", "lookup"}
     /\ reply.offset = 0
     /\ reply.ino \in DOMAIN repos
     /\ reply.ino \notin DOMAIN files)
    => <<"list", repos[reply.ino].full_name, "">> \in {calls[i] : i \in 1..Len(calls)}

\* C15 (no cache poisoning): a population by init() in which a list request
\* fails leaves the stored listings as they were before it, and a later
\* readdir or lookup on a repository without a stored listing retries the
\* list request.
C15_NoCachePoisoning ==
    [][/\ (pc = "init" /\ faults' > faults) => files' = files
       /\ RetriesMissingListing']_vars

\* C16 (failure classification): a read whose content request fails, by the
\* transport, a non-success status, the encoding or the decoding, replies with
\* an I/O error, not with NotFound.
C16_FailureClassification ==
    (reply.op = "read" /\ calls # <<>> /\ reply.status # "data")
        => reply.status = "EIO"

\* The values next_inode() returns in a step: the inodes newly given to
\* remote entries.
Returned == {a[1] : a \in {b \in assigned' \ assigned : b[2] \in Paths}}

\* C17 (inode counter): next_inode never decreases; every value next_inode()
\* returns is at least 2 and greater than every value returned before (at or
\* above the counter before the step, below the counter after it), and as many
\* distinct values are returned as the counter advances.
C17_InodeCounterMonotonic ==
    [][/\ next_inode' >= next_inode
       /\ next_inode' >= FirstInode
       /\ \A v \in Returned : v >= FirstInode /\ v > RootInode /\ v >= next_inode
                                /\ v < next_inode'
       /\ Cardinality(Returned) = next_inode' - next_inode]_vars

\* C17 witness: the counter has served new(), init() and two allocations by
\* lookup or readdir.
C17_Witness ==
    /\ pc = "serving"
    /\ allocs >= 2
    /\ Cardinality(HandedInodes) >= 2
    /\ next_inode >= FirstInode + 2 + Cardinality(HandedInodes)

\* C18 (frame of the protocol operations): a step that serves a lookup,
\* getattr, readdir or read leaves the files map as it was.
C18_FilesUnchanged ==
    [][(reply = NoReply /\ reply'.op \in {"lookup", "getattr", "readdir", "read"})
            => files' = files]_vars

\* The root listings a successful list request can return for a repository.
RootListings(full_name) ==
    {RemoteList(full_name, "", Paths \ gone) : gone \in SUBSET MutablePaths}

\* C19 (repository listings): a listing stored under a repository's inode is
\* that repository's own root listing.
C19_RepoListing ==
    \A ino \in DOMAIN repos :
        ino \in DOMAIN files => files[ino] \in RootListings(repos[ino].full_name)

\* C20 (read safety): a read replies only bytes of the file its inode was
\* handed out for, and never NotFound for an inode handed out for a regular
\* file that exists.
C20_ReadOwnFile ==
    reply.op = "read" =>
        /\ reply.status = "data" =>
              \E p \in Paths : /\ HandedForFile(reply.ino, p)
                               /\ reply.data = Slice(EntryOf(p).bytes, reply.offset, reply.size)
        /\ (\E p \in present : HandedForFile(reply.ino, p)) => reply.status # "ENOENT"

=============================================================================
